---- MODULE Spec2Model ----
(***************************************************************************)
(* nsdgen (src/main.rs): packs a directory of PNG layers into one spatial  *)
(* data file.  The model has the main thread (read_layer_files,            *)
(* init_layers, init_layers_parallel, make_binary, fs::write), the         *)
(* ThreadPool workers running Layer::from_file and the mpsc channel        *)
(* between them, and the serializer functions as operators on byte         *)
(* sequences.                                                              *)
(***************************************************************************)
EXTENDS Integers, Sequences, FiniteSets, TLC

(* ------------------------------ bounds -------------------------------- *)

\* most PNG files found in the input directory
MaxFiles == 2
\* largest value of std::thread::available_parallelism()
MaxAvail == 2
\* largest -w / -h exponent explored by the pipeline specification
MaxPower == 1
\* the sizes (width, height) of the source images explored
SourceSizes == { <<1, 1>>, <<2, 1>>, <<1, 2>>, <<2, 2>> }
\* largest layers.len() explored by the size specification
MaxLayerCount == 258

(* ------------------------- program constants -------------------------- *)

\* bytes of a usize on the x86_64 Windows target (std::os::windows)
UsizeBytes == 8
\* bytes of a u32, the type of the data chunk's size field
U32Bytes == 4
\* largest exponent accepted by the value_parser of wpower / hpower
MaxCliPower == 12

NSD_HEADER == <<78, 83, 71, 255, 83, 112, 97, 116, 105, 97, 108, 0, 0, 0, 0, 0>>
NSD_DIM_HEADER == <<68, 73, 77, 250>>
NSD_ATTR_HEADER == <<65, 84, 82, 250>>
NSD_DATA_HEADER == <<68, 65, 84, 250>>

(* ----------------------------- arithmetic ----------------------------- *)

Min(a, b) == IF a <= b THEN a ELSE b
Max(a, b) == IF a >= b THEN a ELSE b

\* f64::round of the non-negative quotient a / b (halves away from zero)
RoundDiv(a, b) == (2 * a + b) \div (2 * b)

\* u32::to_le_bytes of a value below 2^31
to_le_bytes(n) ==
    << n % 256, (n \div 256) % 256, (n \div 65536) % 256, (n \div 16777216) % 256 >>

\* A usize is held as its UsizeBytes little-endian bytes, so that products
\* beyond 2^31 keep every bit the machine keeps.  In CHOOSE r \in { e : x \in { d } }
\* below and later, x names the value of d and r the value of e.
\* `n as usize` for n < 2^31:
UsizeOf(n) ==
    [i \in 1..UsizeBytes |-> IF i <= 4 THEN (n \div (256 ^ (i - 1))) % 256 ELSE 0]

\* byte i of a times m plus the carry of the bytes below it, then the bytes
\* above (t is the one value of a[i] * m + carry)
RECURSIVE MulLimbs(_, _, _, _)
MulLimbs(a, m, i, carry) ==
    IF i > Len(a) THEN << >>
    ELSE CHOOSE r \in { << t % 256 >> \o MulLimbs(a, m, i + 1, t \div 256) :
                          t \in { a[i] * m + carry } } : TRUE

\* a * m in usize arithmetic, m < 2^13: the carry out of the top byte is lost
wrapping_mul(a, m) == CHOOSE r \in { MulLimbs(v, m, 1, 0) : v \in {a} } : TRUE

\* a > u32::MAX as usize
ExceedsU32(a) == \E i \in (U32Bytes + 1)..Len(a) : a[i] # 0

\* (a as u32).to_le_bytes()
usize_as_u32_le_bytes(a) == SubSeq(a, 1, U32Bytes)

(* -------------------------- LayerDimensions --------------------------- *)

from_power_of_two(width_power_of_two, height_power_of_two) ==
    [width |-> 2 ^ width_power_of_two, height |-> 2 ^ height_power_of_two]

get_texel_count(d) == d.width * d.height

(* ------------------------------- images ------------------------------- *)

\* The decoded contents of the file with stem number s: an sw x sh RGBA
\* image, row-major, whose pixels differ by file and by position and whose
\* green, blue and alpha values are values no red channel takes.
Decode(s, sw, sh) ==
    [width |-> sw, height |-> sh,
     px |-> [p \in 1..(sw * sh) |->
               LET x == (p - 1) % sw
                   y == (p - 1) \div sw
                   r == 16 * s + 4 * y + x
               IN  << r, r + 100, r + 150, 255 >>]]

\* GenericImageView::get_pixel: panics outside the image, so callers test InBounds
InBounds(img, x, y) == x < img.width /\ y < img.height
get_pixel(img, x, y) == img.px[y * img.width + x + 1]

\* image's resize_dimensions with fill = false: the largest size of the
\* source's aspect ratio that fits in nwidth x nheight, each side at least 1
resize_dimensions(width, height, nwidth, nheight) ==
    IF nwidth * height <= nheight * width
    THEN << Max(RoundDiv(width * nwidth, width), 1), Max(RoundDiv(height * nwidth, width), 1) >>
    ELSE << Max(RoundDiv(width * nheight, height), 1), Max(RoundDiv(height * nheight, height), 1) >>

\* nearest-neighbour sampling: output pixel (x, y) is the source pixel under
\* the centre of the output pixel
Sample(img, nw, nh) ==
    [width |-> nw, height |-> nh,
     px |-> [p \in 1..(nw * nh) |->
               LET x == (p - 1) % nw
                   y == (p - 1) \div nw
                   sx == Min(((2 * x + 1) * img.width) \div (2 * nw), img.width - 1)
                   sy == Min(((2 * y + 1) * img.height) \div (2 * nh), img.height - 1)
               IN  get_pixel(img, sx, sy)]]

\* DynamicImage::resize(nwidth, nheight, FilterType::Nearest): preserves the
\* aspect ratio of the image (src and n name the values of their expressions)
resize(img, nwidth, nheight) ==
    CHOOSE r \in { Sample(src, n[1], n[2]) :
                     src \in { img },
                     n \in { resize_dimensions(img.width, img.height, nwidth, nheight) } } : TRUE

(* ------------------------------- Layer -------------------------------- *)

\* The file names of a directory are distinct: file number s is named by s
\* copies of the s-th lower-case letter ("a.png", "bb.png", "ccc.png", ...).
StemName(s) == [j \in 1..s |-> 96 + s]

\* PathBuf::file_stem of a layer file, as the bytes of the String
file_stem(file) == StemName(file.stem)

\* Layer::from_file up to the construction of the Layer: a file that cannot
\* be opened or decoded makes the unwrap() panic (ok = FALSE)
from_file(file, dimensions) ==
    IF ~file.ok
    THEN [ok |-> FALSE, layer |-> [name |-> << >>, image |-> Decode(0, 1, 1)]]
    ELSE [ok |-> TRUE,
          layer |-> [name |-> file_stem(file),
                     image |-> resize(Decode(file.stem, file.width, file.height),
                                      dimensions.width, dimensions.height)]]

(* ----------------------------- serializer ----------------------------- *)

RECURSIVE AttributeLoop(_, _)
AttributeLoop(layers, k) ==
    IF k > Len(layers) THEN << >>
    ELSE NSD_ATTR_HEADER \o layers[k].name \o << 0, 1, 3 >> \o AttributeLoop(layers, k + 1)

\* Variant: the attribute chunks are emitted from the last layer to the first.
RECURSIVE AttributeLoopReversed(_, _)
AttributeLoopReversed(layers, k) ==
    IF k < 1 THEN << >>
    ELSE NSD_ATTR_HEADER \o layers[k].name \o << 0, 1, 3 >> \o AttributeLoopReversed(layers, k - 1)

make_attribute_bytes_reversed(layers) == AttributeLoopReversed(layers, Len(layers))

make_attribute_bytes(layers) == AttributeLoop(layers, 1)

\* Variant: the fourth extent is left out of the dimension chunk.
make_dimensions_bytes_short(dimensions) ==
    NSD_DIM_HEADER \o to_le_bytes(dimensions.width) \o to_le_bytes(dimensions.height)
        \o to_le_bytes(1)

make_dimensions_bytes(dimensions) ==
    NSD_DIM_HEADER \o to_le_bytes(dimensions.width) \o to_le_bytes(dimensions.height)
        \o to_le_bytes(1) \o to_le_bytes(1)

\* Variant: the product is computed in u32, so it wraps at 2^32 before the test.
combined_size_u32(len, dimensions) ==
    wrapping_mul(wrapping_mul(SubSeq(UsizeOf(len), 1, U32Bytes), dimensions.width),
                 dimensions.height)

\* layers.len() * dimensions.width as usize * dimensions.height as usize
combined_size(len, dimensions) ==
    wrapping_mul(wrapping_mul(UsizeOf(len), dimensions.width), dimensions.height)

\* make_data_bytes up to the size field: the tag, the overflow test and the
\* little-endian size.  ok = FALSE is the panic!
DataHeader(len, dimensions) ==
    CHOOSE r \in { IF ExceedsU32(size)
                   THEN [ok |-> FALSE, bytes |-> << >>]
                   ELSE [ok |-> TRUE, bytes |-> NSD_DATA_HEADER \o usize_as_u32_le_bytes(size)] :
                   size \in { combined_size(len, dimensions) } } : TRUE

\* Variant: the green channel, rgba.0[1], is pushed.
PushTexel_green(layer, dimensions, i) ==
    get_pixel(layer.image, i % dimensions.width, i \div dimensions.width)[2]

\* the byte pushed for one layer at texel i: rgba.0[0] of
\* get_pixel(i % width, i / width)
PushTexel(layer, dimensions, i) ==
    get_pixel(layer.image, i % dimensions.width, i \div dimensions.width)[1]

\* get_pixel panics when the coordinate is outside the layer's image
TexelInBounds(layer, dimensions, i) ==
    InBounds(layer.image, i % dimensions.width, i \div dimensions.width)

\* for layer in layers { ... bytes.push(rgba.0[0]) }: the bytes pushed for
\* texel i from layer k on
RECURSIVE LayerLoop(_, _, _, _)
LayerLoop(layers, dimensions, i, k) ==
    IF k > Len(layers) THEN << >>
    ELSE << PushTexel(layers[k], dimensions, i) >> \o LayerLoop(layers, dimensions, i, k + 1)

\* for i in 0..texel_count { ... }: the bytes pushed from texel i on
RECURSIVE TexelLoop(_, _, _)
TexelLoop(layers, dimensions, i) ==
    IF i >= get_texel_count(dimensions) THEN << >>
    ELSE LayerLoop(layers, dimensions, i, 1) \o TexelLoop(layers, dimensions, i + 1)

\* the loops panic when an iteration calls get_pixel outside a layer's image
LoopPanics(layers, dimensions) ==
    \E i \in 0..(get_texel_count(dimensions) - 1) : \E k \in 1..Len(layers) :
        ~TexelInBounds(layers[k], dimensions, i)

make_data_bytes(layers, dimensions) ==
    CHOOSE r \in { IF ~head.ok \/ LoopPanics(layers, dimensions)
                   THEN [ok |-> FALSE, bytes |-> << >>]
                   ELSE [ok |-> TRUE, bytes |-> head.bytes \o TexelLoop(layers, dimensions, 0)] :
                   head \in { DataHeader(Len(layers), dimensions) } } : TRUE

make_binary(layers, dimensions) ==
    CHOOSE r \in { IF ~data_bytes.ok
                   THEN [ok |-> FALSE, bytes |-> << >>]
                   ELSE [ok |-> TRUE,
                         bytes |-> NSD_HEADER \o make_dimensions_bytes(dimensions)
                                     \o make_attribute_bytes(layers) \o data_bytes.bytes] :
                   data_bytes \in { make_data_bytes(layers, dimensions) } } : TRUE

(* ------------------------------- state -------------------------------- *)

VARIABLES
    args,                \* CliArgs: wpower, hpower, save_resized
    dir,                 \* the PNG files of args.directory, in read_dir order
    avail,               \* std::thread::available_parallelism()
    pc,                  \* where the main thread is
    layer_files,         \* main: the Vec<PathBuf> from read_layer_files
    save_resized,        \* init_layers: its mutable save_resized parameter
    create_dir_calls,    \* calls of fs::create_dir on the _resized directory
    resized_dir,         \* whether fs::create_dir created the _resized directory
    dispatched,          \* init_layers_parallel: files handed to pool.execute
    queue,               \* ThreadPool: jobs queued, not yet taken by a worker
    running,             \* ThreadPool: jobs a worker is executing
    panicked,            \* jobs whose closure panicked
    save_calls,          \* jobs that called image.save on a resized copy
    chan,                \* the mpsc channel: Layers sent, not yet received
    layers,              \* the Vec<Layer> being collected from the receiver
    spatial_data_bytes,  \* main: the result of make_binary
    write_calls,         \* calls of fs::write on the output file
    out_file,            \* the output file: "absent", "partial" or "complete"
    sz                   \* the size specification: one call of the data header

vars == << args, dir, avail, pc, layer_files, save_resized, create_dir_calls, resized_dir,
           dispatched, queue, running, panicked, save_calls, chan, layers,
           spatial_data_bytes, write_calls, out_file, sz >>

pool_vars == << queue, running, panicked, save_calls, chan >>
out_vars == << spatial_data_bytes, write_calls, out_file >>
env_vars == << args, dir, avail, sz >>

\* main: LayerDimensions::from_power_of_two(args.wpower, args.hpower)
dimensions == from_power_of_two(args.wpower, args.hpower)

\* init_layers_parallel: jobs and the size of the pool
jobs == Len(layer_files)
workers == Min(jobs, avail)

\* a file of the directory: one that decodes to an image of a size of
\* SourceSizes, or one that cannot be opened or decoded
FileChoices ==
    { [ok |-> TRUE, width |-> z[1], height |-> z[2]] : z \in SourceSizes }
        \cup { [ok |-> FALSE, width |-> 0, height |-> 0] }

SzOff == [pc |-> "off", len |-> 0, wpower |-> 0, hpower |-> 0, bytes |-> << >>]

\* the state of the process as main starts, after CliArgs::parse
Init ==
    /\ args \in [wpower : 0..MaxPower, hpower : 0..MaxPower, save_resized : BOOLEAN]
    /\ \E n \in 0..MaxFiles : \E g \in [1..n -> FileChoices] :
         dir = [i \in 1..n |->
                  [stem |-> i, ok |-> g[i].ok, width |-> g[i].width, height |-> g[i].height]]
    /\ avail \in 1..MaxAvail
    /\ pc = "read_layer_files"
    /\ layer_files = << >>
    /\ save_resized = args.save_resized
    /\ create_dir_calls = 0
    /\ resized_dir = FALSE
    /\ dispatched = 0
    /\ queue = << >>
    /\ running = {}
    /\ panicked = {}
    /\ save_calls = {}
    /\ chan = << >>
    /\ layers = << >>
    /\ spatial_data_bytes = << >>
    /\ write_calls = 0
    /\ out_file = "absent"
    /\ sz = SzOff

(* ---------------------------- main thread ----------------------------- *)

\* main: read_layer_files, and exit(1) when no layer file is found
ReadLayerFiles ==
    /\ pc = "read_layer_files"
    /\ layer_files' = dir
    /\ pc' = IF dir = << >> THEN "exit_no_layers" ELSE "init_layers"
    /\ UNCHANGED << save_resized, create_dir_calls, resized_dir, dispatched, layers >>
    /\ UNCHANGED << pool_vars, out_vars, env_vars >>

\* Variant: the flag is left set when fs::create_dir fails.
InitLayers_keep_flag ==
    /\ pc = "init_layers"
    /\ IF save_resized
       THEN /\ create_dir_calls' = create_dir_calls + 1
            /\ \E created \in BOOLEAN : resized_dir' = created
            /\ UNCHANGED save_resized
       ELSE UNCHANGED << save_resized, create_dir_calls, resized_dir >>
    /\ pc' = "dispatch"
    /\ UNCHANGED << layer_files, dispatched, layers >>
    /\ UNCHANGED << pool_vars, out_vars, env_vars >>

\* init_layers: create the _resized directory when save_resized is set, and
\* clear the flag when that fails; then init_layers_parallel builds the pool
InitLayers ==
    /\ pc = "init_layers"
    /\ IF save_resized
       THEN /\ create_dir_calls' = create_dir_calls + 1
            /\ \E created \in BOOLEAN :
                 /\ resized_dir' = created
                 /\ save_resized' = created
       ELSE UNCHANGED << save_resized, create_dir_calls, resized_dir >>
    /\ pc' = "dispatch"
    /\ UNCHANGED << layer_files, dispatched, layers >>
    /\ UNCHANGED << pool_vars, out_vars, env_vars >>

\* init_layers_parallel: one pool.execute per file, in the order of the list
Dispatch ==
    /\ pc = "dispatch"
    /\ dispatched < jobs
    /\ dispatched' = dispatched + 1
    /\ queue' = Append(queue, dispatched + 1)
    /\ pc' = IF dispatched + 1 = jobs THEN "collect" ELSE "dispatch"
    /\ UNCHANGED << layer_files, save_resized, create_dir_calls, resized_dir, layers >>
    /\ UNCHANGED << running, panicked, save_calls, chan >>
    /\ UNCHANGED << out_vars, env_vars >>

\* Variant: take(jobs - 1), the collection returns one Layer early.
Recv_take_one_less ==
    /\ pc = "collect"
    /\ IF jobs - 1 = 0
       THEN /\ pc' = "make_binary"
            /\ UNCHANGED << layers, chan >>
       ELSE /\ Len(layers) < jobs - 1
            /\ chan # << >>
            /\ layers' = Append(layers, Head(chan))
            /\ chan' = Tail(chan)
            /\ pc' = IF Len(layers) + 1 = jobs - 1 THEN "make_binary" ELSE "collect"
    /\ UNCHANGED << layer_files, save_resized, create_dir_calls, resized_dir, dispatched >>
    /\ UNCHANGED << queue, running, panicked, save_calls >>
    /\ UNCHANGED << out_vars, env_vars >>

\* receiver.iter().take(jobs).collect(): one recv() of the iterator; the
\* collection returns with the jobs-th Layer.  The receiver blocks while the
\* channel is empty: the sender held by init_layers_parallel keeps it open.
Recv ==
    /\ pc = "collect"
    /\ Len(layers) < jobs
    /\ chan # << >>
    /\ layers' = Append(layers, Head(chan))
    /\ chan' = Tail(chan)
    /\ pc' = IF Len(layers) + 1 = jobs THEN "make_binary" ELSE "collect"
    /\ UNCHANGED << layer_files, save_resized, create_dir_calls, resized_dir, dispatched >>
    /\ UNCHANGED << queue, running, panicked, save_calls >>
    /\ UNCHANGED << out_vars, env_vars >>

\* Variant: the chunks are streamed to the output file as they are made, so
\* the file holds the chunks before the data chunk when make_data_bytes panics.
MakeBinary_streamed ==
    /\ pc = "make_binary"
    /\ \E r \in { make_binary(layers, dimensions) } :
           IF r.ok
           THEN /\ spatial_data_bytes' = r.bytes
                /\ pc' = "write"
                /\ UNCHANGED << write_calls, out_file >>
           ELSE /\ pc' = "panicked"
                /\ write_calls' = write_calls + 1
                /\ out_file' = "partial"
                /\ UNCHANGED spatial_data_bytes
    /\ UNCHANGED << layer_files, save_resized, create_dir_calls, resized_dir, dispatched, layers >>
    /\ UNCHANGED << pool_vars, env_vars >>

\* main: make_binary; a panic of make_data_bytes ends the process
MakeBinary ==
    /\ pc = "make_binary"
    /\ \E r \in { make_binary(layers, dimensions) } :
           IF r.ok
           THEN /\ spatial_data_bytes' = r.bytes
                /\ pc' = "write"
           ELSE /\ pc' = "panicked"
                /\ UNCHANGED spatial_data_bytes
    /\ UNCHANGED << layer_files, save_resized, create_dir_calls, resized_dir, dispatched, layers >>
    /\ UNCHANGED << pool_vars, write_calls, out_file, env_vars >>

\* main: fs::write of the whole buffer; on Err the file may not exist or may
\* hold a part of the buffer, and the process exits with status 1
Write ==
    /\ pc = "write"
    /\ write_calls' = write_calls + 1
    /\ \/ out_file' = "complete" /\ pc' = "done"
       \/ out_file' \in {"absent", "partial"} /\ pc' = "exit_write_failed"
    /\ UNCHANGED << layer_files, save_resized, create_dir_calls, resized_dir, dispatched, layers >>
    /\ UNCHANGED << pool_vars, spatial_data_bytes, env_vars >>

(* ------------------------------ workers ------------------------------- *)

\* a free worker of the pool takes the oldest queued job
Start ==
    /\ queue # << >>
    /\ Cardinality(running) < workers
    /\ running' = running \cup {Head(queue)}
    /\ queue' = Tail(queue)
    /\ UNCHANGED << panicked, save_calls, chan >>
    /\ UNCHANGED << pc, layer_files, save_resized, create_dir_calls, resized_dir, dispatched, layers >>
    /\ UNCHANGED << out_vars, env_vars >>

\* the closure of job j: Layer::from_file, then s.send(layer).  A file that
\* does not decode panics the closure: nothing is sent, and the pool
\* replaces the worker.  The resized copy is saved when save_resized is set;
\* a failed save is only reported.
Finish(j) ==
    /\ j \in running
    /\ running' = running \ {j}
    /\ \E r \in { from_file(layer_files[j], dimensions) } :
           IF r.ok
           THEN /\ save_calls' = IF save_resized THEN save_calls \cup {j} ELSE save_calls
                /\ chan' = Append(chan, r.layer)
                /\ UNCHANGED panicked
           ELSE /\ panicked' = panicked \cup {j}
                /\ UNCHANGED << save_calls, chan >>
    /\ UNCHANGED queue
    /\ UNCHANGED << pc, layer_files, save_resized, create_dir_calls, resized_dir, dispatched, layers >>
    /\ UNCHANGED << out_vars, env_vars >>

MainStep == ReadLayerFiles \/ InitLayers \/ Dispatch \/ Recv \/ MakeBinary \/ Write
WorkerStep == Start \/ (\E j \in 1..MaxFiles : Finish(j))

Next == MainStep \/ WorkerStep

Spec == Init /\ [][Next]_vars

\* the operating system keeps scheduling a thread that can take a step
FairSpec == Spec /\ WF_vars(Next)

(* ------------------------ size specification -------------------------- *)

\* One call of make_data_bytes up to its size field, on a slice of sz.len
\* layers and the grid of the exponents sz.wpower and sz.hpower, over the
\* whole range the command line accepts.  The process itself is not running.
SizeInit ==
    /\ sz \in [pc : {"call"}, len : 0..MaxLayerCount, wpower : 0..MaxCliPower,
                hpower : 0..MaxCliPower, bytes : { << >> }]
    /\ args = [wpower |-> 0, hpower |-> 0, save_resized |-> FALSE]
    /\ dir = << >>
    /\ avail = 1
    /\ pc = "off"
    /\ layer_files = << >>
    /\ save_resized = FALSE
    /\ create_dir_calls = 0
    /\ resized_dir = FALSE
    /\ dispatched = 0
    /\ queue = << >>
    /\ running = {}
    /\ panicked = {}
    /\ save_calls = {}
    /\ chan = << >>
    /\ layers = << >>
    /\ spatial_data_bytes = << >>
    /\ write_calls = 0
    /\ out_file = "absent"

SizeCall ==
    /\ sz.pc = "call"
    /\ \E r \in { DataHeader(sz.len, from_power_of_two(sz.wpower, sz.hpower)) } :
           sz' = [sz EXCEPT !.pc = IF r.ok THEN "size_written" ELSE "panicked",
                            !.bytes = r.bytes]
    /\ UNCHANGED << args, dir, avail, pc, layer_files, save_resized, create_dir_calls,
                    resized_dir, dispatched, layers >>
    /\ UNCHANGED << pool_vars, out_vars >>

SizeSpec == SizeInit /\ [][SizeCall]_vars

(* ----------------------------- properties ----------------------------- *)

\* init_layers_parallel has returned its Vec<Layer> to main
Returned == pc \in {"make_binary", "write", "done", "panicked", "exit_write_failed"}

\* make_binary has returned the container
Produced == pc \in {"write", "done", "exit_write_failed"}

\* the process has ended in failure
Failed == pc \in {"exit_no_layers", "panicked", "exit_write_failed"}

\* the u32 read little-endian from the four bytes after offset off
U32At(B, off) == B[off + 1] + 256 * B[off + 2] + 65536 * B[off + 3] + 16777216 * B[off + 4]

\* the red channel of the pixel (x, y) of an image
RedAt(img, x, y) == img.px[y * img.width + x + 1][1]

\* the offset of the k-th attribute chunk of the container of ls: the header,
\* the dimension chunk and the chunks of the layers before it
RECURSIVE AttrOffset(_, _)
AttrOffset(ls, k) ==
    IF k = 1 THEN 36 ELSE AttrOffset(ls, k - 1) + 4 + Len(ls[k - 1].name) + 3

\* A reader of the attribute chunks: from offset pos, the names up to their
\* NUL terminators, and the offset at which the chunks end.
RECURSIVE FindNul(_, _)
FindNul(B, i) == IF i > Len(B) \/ B[i] = 0 THEN i ELSE FindNul(B, i + 1)

RECURSIVE ReadAttributes(_, _)
ReadAttributes(B, pos) ==
    IF pos + 4 <= Len(B) /\ SubSeq(B, pos + 1, pos + 4) = NSD_ATTR_HEADER
    THEN LET e == FindNul(B, pos + 5)
             rest == ReadAttributes(B, e + 2)
         IN  [names |-> << SubSeq(B, pos + 5, e - 1) >> \o rest.names, end |-> rest.end]
    ELSE [names |-> << >>, end |-> pos]

\* C1: the list returned by init_layers_parallel is in the order of the
\* input paths: its k-th Layer is the one loaded from the k-th path.
C1_ReturnedInInputOrder ==
    Returned =>
        \A k \in 1..Len(layers) : layers[k] = from_file(layer_files[k], dimensions).layer

\* C2: a failed loader task aborts the ingestion: no list is returned once a
\* task has failed, and the run then reaches a failed terminal state.
C2_FailureAborts ==
    /\ [](Returned => panicked = {})
    /\ (panicked # {}) ~> Failed

\* C3: in the data chunk of the container, the payload byte i*N + k is the
\* red channel of layer k at pixel (i mod width, i div width), the payload
\* has N*width*height bytes, and no byte is a green, blue or alpha value.
C3_TexelMajorRed ==
    Produced =>
        LET B == spatial_data_bytes
            N == Len(layers)
            W == dimensions.width
            H == dimensions.height
            off == AttrOffset(layers, N + 1) + 8
        IN  /\ Len(B) = off + N * W * H
            /\ \A i \in 0..(W * H - 1) : \A k \in 0..(N - 1) :
                 LET img == layers[k + 1].image
                     pixel == img.px[(i \div W) * img.width + (i % W) + 1]
                 IN  /\ B[off + i * N + k + 1] = pixel[1]
                     /\ B[off + i * N + k + 1] \notin {pixel[2], pixel[3], pixel[4]}

C3_Witness ==
    /\ pc = "done"
    /\ Len(layers) = 2
    /\ dimensions = [width |-> 2, height |-> 2]
    /\ layers[1].name = StemName(1)
    /\ \A j \in 1..2 : layer_files[j].width = 2 /\ layer_files[j].height = 2

\* C4: every Layer made by Layer::from_file holds an image of exactly
\* dimensions.width x dimensions.height pixels.
C4_ExactDimensions ==
    /\ \A k \in 1..Len(chan) :
         chan[k].image.width = dimensions.width /\ chan[k].image.height = dimensions.height
    /\ \A k \in 1..Len(layers) :
         layers[k].image.width = dimensions.width /\ layers[k].image.height = dimensions.height

\* the product len * 2^wpower * 2^hpower as its two 16-bit halves above and
\* below 2^16 (hi is 65536 or more exactly when the product exceeds 2^32 - 1)
TrueProduct(len, wpower, hpower) ==
    LET t == 2 ^ (wpower + hpower)
        low == len * (t % 65536)
    IN  [hi |-> len * (t \div 65536) + low \div 65536, lo |-> low % 65536]

\* C5: make_data_bytes panics whenever layerCount * width * height exceeds
\* 2^32 - 1, and when it writes the size field, the field is the product.
C5_SizeFieldExact ==
    sz.pc \in {"size_written", "panicked"} =>
        LET p == TrueProduct(sz.len, sz.wpower, sz.hpower)
        IN  /\ p.hi >= 65536 => sz.pc = "panicked"
            /\ sz.pc = "size_written" =>
                 /\ p.hi < 65536
                 /\ Len(sz.bytes) = 8
                 /\ sz.bytes[5] + 256 * sz.bytes[6] = p.lo
                 /\ sz.bytes[7] + 256 * sz.bytes[8] = p.hi

C5_Witness ==
    sz.pc = "panicked" /\ sz.len = 256 /\ sz.wpower = MaxCliPower /\ sz.hpower = MaxCliPower

\* C6: the container is the 16-byte header, the 20-byte dimension chunk
\* (tag, width, height, 1, 1 little-endian), one attribute chunk per layer in
\* list order (tag, name, 0, 1, 3) and the data chunk of 8 + N*width*height
\* bytes whose size field is N*width*height.
C6_ContainerLayout ==
    Produced =>
        LET B == spatial_data_bytes
            N == Len(layers)
            W == dimensions.width
            H == dimensions.height
            data == AttrOffset(layers, N + 1)
        IN  /\ Len(B) = data + 8 + N * W * H
            /\ SubSeq(B, 1, 16) = NSD_HEADER
            /\ SubSeq(B, 17, 20) = NSD_DIM_HEADER
            /\ U32At(B, 20) = W /\ U32At(B, 24) = H
            /\ U32At(B, 28) = 1 /\ U32At(B, 32) = 1
            /\ \A k \in 1..N :
                 LET a == AttrOffset(layers, k)
                     n == Len(layers[k].name)
                 IN  /\ SubSeq(B, a + 1, a + 4) = NSD_ATTR_HEADER
                     /\ SubSeq(B, a + 5, a + 4 + n) = layers[k].name
                     /\ SubSeq(B, a + 5 + n, a + 7 + n) = << 0, 1, 3 >>
            /\ SubSeq(B, data + 1, data + 4) = NSD_DATA_HEADER
            /\ U32At(B, data + 4) = N * W * H

C6_Witness ==
    /\ pc = "done"
    /\ Len(layers) = 2
    /\ dimensions = [width |-> 1, height |-> 2]
    /\ Len(spatial_data_bytes) = 16 + 20 + (4 + 1 + 3) + (4 + 2 + 3) + 8 + 4

\* C7: the output file is written at most once, and only after every loader
\* task has completed successfully and make_binary has succeeded; with no
\* layer file, a failed loader task or a failed serialization it is not written.
C7_WriteOnceAfterAll ==
    /\ write_calls <= 1
    /\ write_calls = 0 => out_file = "absent"
    /\ write_calls = 1 =>
         /\ jobs >= 1 /\ dispatched = jobs /\ Len(layers) = jobs
         /\ queue = << >> /\ running = {} /\ panicked = {}
         /\ make_binary(layers, dimensions).ok
         /\ spatial_data_bytes = make_binary(layers, dimensions).bytes
    /\ (pc \in {"exit_no_layers", "panicked"} \/ panicked # {}) => write_calls = 0

C7_Witness ==
    pc = "done" /\ write_calls = 1 /\ out_file = "complete" /\ jobs = 2

\* C8: when save_resized is requested, fs::create_dir is called exactly once
\* and before any file is dispatched; when it fails no loader task saves a
\* resized copy, and the files are still dispatched and collected.
C8_CreateDirOnceBeforeDispatch ==
    /\ create_dir_calls <= 1
    /\ ~args.save_resized => create_dir_calls = 0 /\ save_calls = {}
    /\ (args.save_resized /\ (dispatched > 0 \/ pc \in {"dispatch", "collect"} \/ Returned))
         => create_dir_calls = 1
    /\ (create_dir_calls = 1 /\ ~resized_dir) =>
         /\ save_calls = {}
         /\ pc \in {"dispatch", "collect"} \/ Returned

C8_Witness ==
    /\ args.save_resized /\ create_dir_calls = 1 /\ ~resized_dir
    /\ pc = "done" /\ Len(layers) = 2 /\ save_calls = {}

\* C9: when every loader task succeeds the collection returns, only after
\* every dispatched task has completed, with exactly one Layer per input path.
C9_CollectsEveryLayerOnce ==
    /\ [](Returned =>
            /\ dispatched = jobs /\ queue = << >> /\ running = {}
            /\ Len(layers) = jobs
            /\ \A j \in 1..jobs :
                 Cardinality({k \in 1..Len(layers) :
                                layers[k].name = file_stem(layer_files[j])}) = 1)
    /\ (pc \in {"dispatch", "collect"} /\ \A j \in 1..Len(dir) : dir[j].ok) ~> Returned

C9_Witness ==
    pc = "make_binary" /\ jobs = 2 /\ avail = 1 /\ Len(layers) = 2

\* C10: the k-th attribute chunk's name and the k-th byte of every texel
\* group of the payload come from the same layer file.
C10_NamesMatchPayload ==
    Produced =>
        LET B == spatial_data_bytes
            W == dimensions.width
            H == dimensions.height
            a == ReadAttributes(B, 36)
            n == Len(a.names)
        IN  \A k \in 1..n : \E j \in 1..jobs :
              /\ a.names[k] = file_stem(layer_files[j])
              /\ LET img == from_file(layer_files[j], dimensions).layer.image
                 IN  \A i \in 0..(W * H - 1) :
                       B[a.end + 8 + i * n + k] = RedAt(img, i % W, i \div W)

C10_Witness ==
    /\ pc = "done"
    /\ Len(layers) = 2
    /\ layers[1].name = StemName(2)
    /\ dimensions = [width |-> 2, height |-> 1]

====
